---------------------------- MODULE Spec2Model ----------------------------
(***************************************************************************)
(* Model of pilot/pkg/serviceregistry/kube/controller/endpointslice.go:    *)
(* the endpointSliceCache (Update, Delete, Get, Has) and the               *)
(* endpointSliceController code that feeds it from EndpointSlice objects.  *)
(***************************************************************************)
EXTENDS Naturals, Sequences, FiniteSets, TLC

VARIABLES
    cache,      \* endpointSliceCache.endpointsByServiceAndSlice
    updated,    \* history: the (hostname, slice) pairs updated and not deleted since
    features,   \* features.PersistentSessionLabel, features.SendUnhealthyEndpoints
    services,   \* what esc.c.GetService answers for each hostname
    lastWrite,  \* history: the last Update or Delete call
    lastRead,   \* history: the Get or Has call made since the last write, and its result
    proc,       \* history: the last EndpointSlice handed to the controller
    store,      \* the informer's indexer, which esc.slices.List reads
    query,      \* history: the last query of the controller, and its result
    mu,         \* endpointSliceCache.mu
    threads,    \* the goroutines calling the cache, and where each one stands
    committed   \* history: the cache as the last Unlock left it

vars == <<cache, updated, features, services, lastWrite, lastRead, proc,
          store, query, mu, threads, committed>>

\* what the sequential operations of the cache and of the event handlers leave alone
queryVars == <<store, query>>

lockVars == <<mu, threads, committed>>

-----------------------------------------------------------------------------
(* Bounds of the model *)

\* longest endpoint list handed directly to endpointSliceCache.Update
MaxLen == 2

-----------------------------------------------------------------------------
(* Values *)

Hostnames == {"s1", "s2"}

SliceNames == {"p1", "p2"}

\* the (hostname, slice name) pairs the cache is called with: two slices of
\* s1, and a slice of s2 that has the name of a slice of s1
Slots == {<<"s1", "p1">>, <<"s1", "p2">>, <<"s2", "p1">>}

Healthy == "Healthy"

UnHealthy == "UnHealthy"

Draining == "Draining"

\* Go pointers: nil, or a pointer to x
NilPtr == <<>>

Ptr(x) == <<x>>

Deref(p) == p[1]

\* model.IstioEndpoint, the fields this file sets or reads; WorkloadName stands
\* for what the endpoint builder takes from the pod
IstioEndpointOf(address, portNum, portName, status, workload) ==
    [Address |-> address, EndpointPort |-> portNum,
     ServicePortName |-> portName, HealthStatus |-> status, WorkloadName |-> workload]

IstioEndpoint(address, portNum, portName, status) ==
    IstioEndpointOf(address, portNum, portName, status, "")

\* the endpoints a slice may carry when Update is called directly: p1 and p2
\* of s1 overlap on the key (10.0.0.1, http) with different health status, and
\* each also has a key of its own (another port name, another address)
DirectEndpoints(slot) ==
    IF slot[2] = "p1" /\ slot[1] = "s1"
    THEN { IstioEndpoint("10.0.0.1", 80, "http", Healthy),
           IstioEndpoint("10.0.0.1", 90, "grpc", Healthy) }
    ELSE IF slot[2] = "p2" /\ slot[1] = "s1"
    THEN { IstioEndpoint("10.0.0.1", 80, "http", Draining),
           IstioEndpoint("10.0.0.2", 80, "http", Healthy) }
    ELSE { IstioEndpoint("10.0.0.1", 80, "http", Healthy) }

RECURSIVE SeqsUpTo(_, _)
SeqsUpTo(S, n) ==
    IF n = 0 THEN {<<>>}
    ELSE LET shorter == SeqsUpTo(S, n - 1)
         IN shorter \cup {Append(q, x) : q \in {r \in shorter : Len(r) = n - 1}, x \in S}

EndpointLists(slot) == SeqsUpTo(DirectEndpoints(slot), MaxLen)

Range(f) == {f[x] : x \in DOMAIN f}

\* Go map helpers: delete(m, k) and m[k] = v on a map held as a function
MapDelete(m, k) == [x \in (DOMAIN m) \ {k} |-> m[x]]

MapPut(m, k, v) == [x \in (DOMAIN m) \cup {k} |-> IF x = k THEN v ELSE m[x]]

EmptyMap == [x \in {} |-> <<>>]

\* m[k] of a Go map of maps: the nil (empty) map when k is absent
MapGet(m, k) == IF k \in DOMAIN m THEN m[k] ELSE EmptyMap

-----------------------------------------------------------------------------
(* endpointSliceCache *)

endpointKey(ep) == [ip |-> ep.Address, port |-> ep.ServicePortName]

newEndpointSliceCache == EmptyMap

\* Update as a merge: the new endpoints are appended to the slice's old ones
UpdateCacheMerge(c, hostname, slice, endpoints) ==
    LET old == IF hostname \in DOMAIN c /\ slice \in DOMAIN c[hostname]
               THEN c[hostname][slice] ELSE <<>>
        c2 == IF hostname \notin DOMAIN c THEN MapPut(c, hostname, EmptyMap) ELSE c
    IN  [c2 EXCEPT ![hostname] = MapPut(@, slice, old \o endpoints)]

\* Update that keeps a slice's first contribution
UpdateCacheKeepFirst(c, hostname, slice, endpoints) ==
    LET c2 == IF hostname \notin DOMAIN c THEN MapPut(c, hostname, EmptyMap) ELSE c
    IN  IF slice \in DOMAIN c2[hostname] /\ Len(c2[hostname][slice]) > 0
        THEN c2
        ELSE [c2 EXCEPT ![hostname] = MapPut(@, slice, endpoints)]

\* Update that returns after the delete of line 347 when the list is empty
UpdateCacheEmptyRemoves(c, hostname, slice, endpoints) ==
    LET c2 == IF hostname \notin DOMAIN c THEN MapPut(c, hostname, EmptyMap) ELSE c
    IN  IF Len(endpoints) = 0
        THEN [c2 EXCEPT ![hostname] = MapDelete(@, slice)]
        ELSE [c2 EXCEPT ![hostname] = MapPut(@, slice, endpoints)]

\* Update that also drops the service entry when the list is empty
UpdateCacheEmptyDeletes(c, hostname, slice, endpoints) ==
    LET c2 == IF hostname \notin DOMAIN c THEN MapPut(c, hostname, EmptyMap) ELSE c
    IN  IF Len(endpoints) = 0
        THEN LET c3 == [c2 EXCEPT ![hostname] = MapDelete(@, slice)]
             IN  IF DOMAIN c3[hostname] = {} THEN MapDelete(c3, hostname) ELSE c3
        ELSE [c2 EXCEPT ![hostname] = MapPut(@, slice, endpoints)]

UpdateCache(c, hostname, slice, endpoints) ==
    LET c1 == IF Len(endpoints) = 0 /\ hostname \in DOMAIN c
              THEN [c EXCEPT ![hostname] = MapDelete(@, slice)]
              ELSE c
        c2 == IF hostname \notin DOMAIN c1 THEN MapPut(c1, hostname, EmptyMap) ELSE c1
    IN  [c2 EXCEPT ![hostname] = MapPut(@, slice, endpoints)]

\* Delete that drops the whole service entry
DeleteCacheWholeService(c, hostname, slice) == MapDelete(c, hostname)

\* Delete without the cleanup of the emptied service entry
DeleteCacheKeepService(c, hostname, slice) ==
    IF hostname \in DOMAIN c
    THEN [c EXCEPT ![hostname] = MapDelete(@, slice)]
    ELSE c

DeleteCache(c, hostname, slice) ==
    LET c1 == IF hostname \in DOMAIN c
              THEN [c EXCEPT ![hostname] = MapDelete(@, slice)]
              ELSE c
    IN  IF Cardinality(DOMAIN MapGet(c1, hostname)) = 0
        THEN MapDelete(c1, hostname)
        ELSE c1

HasCache(c, hostname) == hostname \in DOMAIN c

\* the orders in which a range loop may visit the keys of a Go map
Orders(S) == {o \in [1..Cardinality(S) -> S] : \A i, j \in 1..Cardinality(S) : o[i] = o[j] => i = j}

RECURSIVE Flatten(_)
Flatten(ss) == IF Len(ss) = 0 THEN <<>> ELSE Head(ss) \o Flatten(Tail(ss))

\* Get without the duplicate check
DedupNone(eps, found, acc) == acc \o eps

RECURSIVE Dedup(_, _, _)
Dedup(eps, found, acc) ==
    IF Len(eps) = 0 THEN acc
    ELSE LET ep == Head(eps)
             key == endpointKey(ep)
         IN  IF key \in found
             THEN Dedup(Tail(eps), found, acc)
             ELSE Dedup(Tail(eps), found \cup {key}, Append(acc, ep))

\* Get for one visiting order of the slices of hostname
GetCache(c, hostname, order) ==
    Dedup(Flatten([i \in 1..Len(order) |-> MapGet(c, hostname)[order[i]]]), {}, <<>>)

-----------------------------------------------------------------------------
(* Operations *)

Null == "null"

Keys(eps) == {endpointKey(eps[i]) : i \in 1..Len(eps)}

Recorded(c, hostname, slice) == hostname \in DOMAIN c /\ slice \in DOMAIN c[hostname]

Contribution(c, hostname, slice) ==
    IF Recorded(c, hostname, slice) THEN c[hostname][slice] ELSE <<>>

\* lastWrite: the last Update or Delete, with what it found before it wrote:
\* was (the slice was recorded), same (it was recorded with these endpoints),
\* dropped (keys of the old contribution that the new one lacks), others (the
\* other slices recorded for the hostname)
NoWrite ==
    [op |-> "none", hostname |-> Null, slice |-> Null, endpoints |-> <<>>,
     was |-> FALSE, same |-> FALSE, dropped |-> {}, others |-> {}]

WriteRecord(op, c, hostname, slice, endpoints) ==
    [op |-> op, hostname |-> hostname, slice |-> slice, endpoints |-> endpoints,
     was |-> Recorded(c, hostname, slice),
     same |-> Recorded(c, hostname, slice) /\ c[hostname][slice] = endpoints,
     dropped |-> Keys(Contribution(c, hostname, slice)) \ Keys(endpoints),
     others |-> (DOMAIN MapGet(c, hostname)) \ {slice}]

NoRead == [op |-> "none", hostname |-> Null, out |-> <<>>, found |-> FALSE]

NoProc == [op |-> "none", hostname |-> Null, slice |-> Null, class |-> <<>>, emitted |-> <<>>]

\* query: the last query and what it returned
NoQuery == [op |-> "none", args |-> <<>>, order |-> <<>>, err |-> FALSE, out |-> <<>>]

\* sync.RWMutex: the goroutine holding the write lock, those holding a read lock
Unlocked == [w |-> Null, r |-> {}]

\* two goroutines handling the events of one slice each, and one that reads
Writers == {"w1", "w2"}

Readers == {"r1"}

Threads == Writers \cup Readers

\* a goroutine: pc is the line it stands before, call the function it runs;
\* visited and out are the loop state of Get, has the answer of Has; history:
\* wrote is the cache as its own Unlock left it, and snap the cache as the
\* last Unlock before its last RLock left it
IdleThread ==
    [pc |-> "idle", call |-> "none", slice |-> Null, endpoints |-> <<>>,
     visited |-> {}, out |-> <<>>, has |-> FALSE, wrote |-> EmptyMap, snap |-> EmptyMap]

DefaultFeatures == [PersistentSessionLabel |-> "", SendUnhealthyEndpoints |-> FALSE]

NoServices == [h \in Hostnames |-> NilPtr]

InitCache ==
    /\ cache = newEndpointSliceCache
    /\ updated = {}
    /\ features = DefaultFeatures
    /\ services = NoServices
    /\ lastWrite = NoWrite
    /\ lastRead = NoRead
    /\ proc = NoProc
    /\ store = EmptyMap
    /\ query = NoQuery
    /\ mu = Unlocked
    /\ threads = [t \in Threads |-> IdleThread]
    /\ committed = newEndpointSliceCache

Update(hostname, slice, endpoints) ==
    /\ cache' = UpdateCache(cache, hostname, slice, endpoints)
    /\ updated' = updated \cup {<<hostname, slice>>}
    /\ lastWrite' = WriteRecord("Update", cache, hostname, slice, endpoints)
    /\ lastRead' = NoRead
    /\ UNCHANGED <<features, services, proc, queryVars, lockVars>>

Delete(hostname, slice) ==
    /\ cache' = DeleteCache(cache, hostname, slice)
    /\ updated' = updated \ {<<hostname, slice>>}
    /\ lastWrite' = WriteRecord("Delete", cache, hostname, slice, <<>>)
    /\ lastRead' = NoRead
    /\ UNCHANGED <<features, services, proc, queryVars, lockVars>>

\* Get whose lookup leaves an entry behind for a hostname it did not find
GetCreatesEntry(hostname) ==
    /\ cache' = IF hostname \in DOMAIN cache THEN cache ELSE MapPut(cache, hostname, EmptyMap)
    /\ \E order \in Orders(DOMAIN MapGet(cache, hostname)) :
          lastRead' = [op |-> "Get", hostname |-> hostname,
                       out |-> GetCache(cache, hostname, order), found |-> FALSE]
    /\ UNCHANGED <<updated, features, services, lastWrite, proc, queryVars, lockVars>>

Get(hostname) ==
    /\ \E order \in Orders(DOMAIN MapGet(cache, hostname)) :
          lastRead' = [op |-> "Get", hostname |-> hostname,
                       out |-> GetCache(cache, hostname, order), found |-> FALSE]
    /\ UNCHANGED <<cache, updated, features, services, lastWrite, proc, queryVars, lockVars>>

Has(hostname) ==
    /\ lastRead' = [op |-> "Has", hostname |-> hostname, out |-> <<>>,
                    found |-> HasCache(cache, hostname)]
    /\ UNCHANGED <<cache, updated, features, services, lastWrite, proc, queryVars, lockVars>>

NextCache ==
    \/ \E slot \in Slots : \E endpoints \in EndpointLists(slot) : Update(slot[1], slot[2], endpoints)
    \/ \E slot \in Slots : Delete(slot[1], slot[2])
    \/ \E hostname \in Hostnames : Get(hostname)
    \/ \E hostname \in Hostnames : Has(hostname)

SpecCache == InitCache /\ [][NextCache]_vars

-----------------------------------------------------------------------------
(* endpointSliceController: from an EndpointSlice to the cache *)

PersistentSessionLabelName == "istio.io/persistent-session"

\* m[k] of a Go map[string]string: "" when k is absent
MapLookup(m, k) == IF k \in DOMAIN m THEN m[k] ELSE ""

\* getPod: the pod of an address and whether one was expected. The pod cache of
\* the model is fixed: 10.0.0.1 has a pod, 10.0.0.2 has none although its
\* target reference names one, 10.0.0.3 has none and none is expected.
getPod(a) ==
    IF a = "10.0.0.1" THEN [pod |-> Ptr("pod-1"), expectedPod |-> FALSE]
    ELSE IF a = "10.0.0.2" THEN [pod |-> NilPtr, expectedPod |-> TRUE]
    ELSE [pod |-> NilPtr, expectedPod |-> FALSE]

\* draining without the two Serving conjuncts
drainingNoServing(e, svc, label) ==
    /\ label # ""
    /\ svc # NilPtr
    /\ Deref(svc).Labels # NilPtr
    /\ MapLookup(Deref(Deref(svc).Labels), label) # ""
    /\ e.Conditions.Ready # NilPtr
    /\ ~Deref(e.Conditions.Ready)

draining(e, svc, label) ==
    /\ label # ""
    /\ svc # NilPtr
    /\ Deref(svc).Labels # NilPtr
    /\ MapLookup(Deref(Deref(svc).Labels), label) # ""
    /\ e.Conditions.Ready # NilPtr
    /\ e.Conditions.Serving # NilPtr
    /\ Deref(e.Conditions.Serving)
    /\ ~Deref(e.Conditions.Ready)

\* the filter without its test of draining
ignoredNoDraining(e, dr, sendUnhealthy) ==
    /\ ~sendUnhealthy
    /\ e.Conditions.Ready # NilPtr /\ ~Deref(e.Conditions.Ready)

\* the entry is ignored (the continue of line 206)
ignored(e, dr, sendUnhealthy) ==
    /\ ~sendUnhealthy
    /\ ~dr /\ e.Conditions.Ready # NilPtr /\ ~Deref(e.Conditions.Ready)

ready(e) == e.Conditions.Ready = NilPtr \/ Deref(e.Conditions.Ready)

\* the status without the Draining branch
HealthStatusOfNoDraining(rd, dr) == IF rd THEN Healthy ELSE UnHealthy

HealthStatusOf(rd, dr) ==
    IF rd THEN Healthy ELSE IF dr THEN Draining ELSE UnHealthy

PortNum(port) == IF port.Port # NilPtr THEN Deref(port.Port) ELSE 0

PortName(port) == IF port.Name # NilPtr THEN Deref(port.Name) ELSE ""

\* the endpoints of one address, left out whenever no pod is found
AddressEndpointsNeedPod(a, ports, status) ==
    LET found == getPod(a)
    IN  IF found.pod = NilPtr
        THEN <<>>
        ELSE [i \in 1..Len(ports) |->
                 IstioEndpointOf(a, PortNum(ports[i]), PortName(ports[i]), status,
                                 Deref(found.pod))]

\* the endpoints of one address: none when its pod is expected and missing
AddressEndpoints(a, ports, status) ==
    LET found == getPod(a)
    IN  IF found.pod = NilPtr /\ found.expectedPod
        THEN <<>>
        ELSE [i \in 1..Len(ports) |->
                 IstioEndpointOf(a, PortNum(ports[i]), PortName(ports[i]), status,
                                 IF found.pod = NilPtr THEN "" ELSE Deref(found.pod))]

\* one turn of the loop over slice.Endpoints
EntryEndpoints(e, ports, svc, feats) ==
    LET dr == draining(e, svc, feats.PersistentSessionLabel)
    IN  IF ignored(e, dr, feats.SendUnhealthyEndpoints)
        THEN <<>>
        ELSE Flatten([i \in 1..Len(e.Addresses) |->
                         AddressEndpoints(e.Addresses[i], ports, HealthStatusOf(ready(e), dr))])

\* what each entry of the slice adds to the list, in order
EmittedByEntry(slice, svc, feats) ==
    [i \in 1..Len(slice.Endpoints) |-> EntryEndpoints(slice.Endpoints[i], slice.Ports, svc, feats)]

updateEndpointCacheForSlice(c, hostName, slice, svc, feats) ==
    IF slice.AddressType = "FQDN"
    THEN c
    ELSE UpdateCache(c, hostName, slice.Name, Flatten(EmittedByEntry(slice, svc, feats)))

-----------------------------------------------------------------------------
(* The EndpointSlice objects and settings the controller is run with *)

Tri == {NilPtr, Ptr(TRUE), Ptr(FALSE)}

Endpoint(addresses, rd, serving) ==
    [Addresses |-> addresses, Conditions |-> [Ready |-> rd, Serving |-> serving]]

EndpointSlice(name, addressType, endpoints, ports) ==
    [Name |-> name, AddressType |-> addressType, Endpoints |-> endpoints, Ports |-> ports]

HttpPort == [Name |-> Ptr("http"), Port |-> Ptr(80)]

UnnamedPort == [Name |-> NilPtr, Port |-> NilPtr]

\* one entry with one address and one port, for every readiness and serving
\* condition
ConditionSlices(name) ==
    {EndpointSlice(name, "IPv4", <<Endpoint(<<"10.0.0.1">>, rd, sv)>>, <<HttpPort>>) :
        rd \in Tri, sv \in Tri}

\* a ready entry followed by an entry of three addresses, with two ports
TwoEntrySlices(name) ==
    {EndpointSlice(name, "IPv4",
                   <<Endpoint(<<"10.0.0.1">>, Ptr(TRUE), Ptr(TRUE)),
                     Endpoint(<<"10.0.0.1", "10.0.0.2", "10.0.0.3">>, rd, sv)>>,
                   <<HttpPort, UnnamedPort>>) :
        rd \in {Ptr(TRUE), Ptr(FALSE)}, sv \in {NilPtr, Ptr(TRUE)}}

\* slices with no entry, with no port, of address type IPv6 and FQDN
OtherSlices(name) ==
    { EndpointSlice(name, "IPv4", <<>>, <<HttpPort>>),
      EndpointSlice(name, "IPv4", <<Endpoint(<<"10.0.0.3">>, NilPtr, NilPtr)>>, <<>>),
      EndpointSlice(name, "IPv6", <<Endpoint(<<"10.0.0.3">>, Ptr(TRUE), NilPtr)>>, <<HttpPort>>),
      EndpointSlice(name, "FQDN", <<Endpoint(<<"10.0.0.1">>, Ptr(TRUE), Ptr(TRUE))>>, <<HttpPort>>) }

EndpointSlices(name) == ConditionSlices(name) \cup TwoEntrySlices(name) \cup OtherSlices(name)

\* the hostname whose slices the controller is handed
SliceHost == "s1"

\* the service GetService finds: none, one with a nil label map, one without
\* the persistent-session label, one with it
ServiceChoices ==
    { NilPtr,
      Ptr([Labels |-> NilPtr]),
      Ptr([Labels |-> Ptr([l \in {"app"} |-> "web"])]),
      Ptr([Labels |-> Ptr([l \in {PersistentSessionLabelName} |-> "true"])]) }

FeatureChoices ==
    [PersistentSessionLabel : {"", PersistentSessionLabelName},
     SendUnhealthyEndpoints : BOOLEAN]

InitSlice ==
    /\ cache = newEndpointSliceCache
    /\ updated = {}
    /\ features \in FeatureChoices
    /\ \E svc \in ServiceChoices :
          services = [h \in Hostnames |-> IF h = SliceHost THEN svc ELSE NilPtr]
    /\ lastWrite = NoWrite
    /\ lastRead = NoRead
    /\ proc = NoProc
    /\ store = EmptyMap
    /\ query = NoQuery
    /\ mu = Unlocked
    /\ threads = [t \in Threads |-> IdleThread]
    /\ committed = newEndpointSliceCache

\* buildIstioEndpoints: updateEndpointCacheForSlice, then Get
buildIstioEndpoints(slice, hostName) ==
    \E svc \in {services[hostName]}, wrote \in {slice.AddressType # "FQDN"} :
    \E emitted \in {IF wrote THEN EmittedByEntry(slice, svc, features) ELSE <<>>} :
    \E after \in {updateEndpointCacheForSlice(cache, hostName, slice, svc, features)} :
        /\ cache' = after
        /\ updated' = IF wrote THEN updated \cup {<<hostName, slice.Name>>} ELSE updated
        /\ lastWrite' = IF wrote
                        THEN WriteRecord("Update", cache, hostName, slice.Name, Flatten(emitted))
                        ELSE NoWrite
        /\ \E order \in Orders(DOMAIN MapGet(after, hostName)) :
              lastRead' = [op |-> "Get", hostname |-> hostName,
                           out |-> GetCache(after, hostName, order), found |-> FALSE]
        /\ proc' = [op |-> "build", hostname |-> hostName, slice |-> slice,
                    class |-> IF wrote
                              THEN [i \in 1..Len(slice.Endpoints) |->
                                      [ready |-> ready(slice.Endpoints[i]),
                                       draining |-> draining(slice.Endpoints[i], svc,
                                                             features.PersistentSessionLabel)]]
                              ELSE <<>>,
                    emitted |-> emitted]
        /\ UNCHANGED <<features, services, queryVars, lockVars>>

\* forgetEndpoint, for the one hostname of the slice's service
forgetEndpoint(sliceName, hostName) ==
    \E has \in {HasCache(cache, hostName)} :
    \E after \in {IF has THEN DeleteCache(cache, hostName, sliceName) ELSE cache} :
        /\ cache' = after
        /\ updated' = IF has THEN updated \ {<<hostName, sliceName>>} ELSE updated
        /\ lastWrite' = IF has
                        THEN WriteRecord("Delete", cache, hostName, sliceName, <<>>)
                        ELSE NoWrite
        /\ IF has
           THEN \E order \in Orders(DOMAIN MapGet(after, hostName)) :
                   lastRead' = [op |-> "Get", hostname |-> hostName,
                                out |-> GetCache(after, hostName, order), found |-> TRUE]
           ELSE lastRead' = [op |-> "Has", hostname |-> hostName, out |-> <<>>,
                             found |-> FALSE]
        /\ proc' = [op |-> "forget", hostname |-> hostName, slice |-> sliceName,
                    class |-> <<>>, emitted |-> <<>>]
        /\ UNCHANGED <<features, services, queryVars, lockVars>>

NextSlice ==
    \/ \E name \in SliceNames : \E slice \in EndpointSlices(name) :
          buildIstioEndpoints(slice, SliceHost)
    \/ \E name \in SliceNames : forgetEndpoint(name, SliceHost)

SpecSlice == InitSlice /\ [][NextSlice]_vars

-----------------------------------------------------------------------------
(* Properties of the endpointSliceCache, checked under SpecCache *)

\* the slices recorded for a hostname
SlicesOf(c, hostname) == DOMAIN MapGet(c, hostname)

\* the keys held by the slices recorded for a hostname, qs restricting the slices
KeysOf(c, hostname, qs) ==
    UNION {Keys(c[hostname][q]) : q \in SlicesOf(c, hostname) \cap qs}

\* every endpoint of out is stored in one of the slices qs of hostname
StoredIn(out, c, hostname, qs) ==
    \A i \in 1..Len(out) :
        \E q \in SlicesOf(c, hostname) \cap qs : out[i] \in Range(c[hostname][q])

GetAfterWrite == lastRead.op = "Get" /\ lastRead.hostname = lastWrite.hostname

HasAfterWrite == lastRead.op = "Has" /\ lastRead.hostname = lastWrite.hostname

\* C1: after Update(s, p, E2) the contribution recorded for p is exactly E2,
\* whatever p held before, and a Get(s) that follows returns a key that the old
\* contribution had and E2 lacks only if another slice of s holds that key.
C1_ReplacementNotMerge ==
    lastWrite.op = "Update" =>
        /\ Recorded(cache, lastWrite.hostname, lastWrite.slice)
        /\ cache[lastWrite.hostname][lastWrite.slice] = lastWrite.endpoints
        /\ GetAfterWrite =>
              \A k \in lastWrite.dropped \cap Keys(lastRead.out) :
                  k \in KeysOf(cache, lastWrite.hostname, SliceNames \ {lastWrite.slice})

\* a second Update of a slice dropped a key no other slice holds, and Get no
\* longer returns it
C1_Witness ==
    /\ lastWrite.op = "Update" /\ lastWrite.was /\ GetAfterWrite
    /\ Len(lastWrite.endpoints) > 0
    /\ lastWrite.others # {}
    /\ \E k \in lastWrite.dropped : k \notin Keys(lastRead.out)

\* C2: Get(s) returns exactly one endpoint for every key held by a slice of s,
\* none for any other key, and each returned endpoint is one of the stored ones.
C2_CrossPartitionDedup ==
    lastRead.op = "Get" =>
        /\ Keys(lastRead.out) = KeysOf(cache, lastRead.hostname, SliceNames)
        /\ \A i, j \in 1..Len(lastRead.out) :
              endpointKey(lastRead.out[i]) = endpointKey(lastRead.out[j]) => i = j
        /\ StoredIn(lastRead.out, cache, lastRead.hostname, SliceNames)

\* two slices hold the key (10.0.0.1, http) with different status, one slice
\* holds a key twice, and Get returned the Draining entry for the shared key
C2_Witness ==
    /\ lastRead.op = "Get" /\ lastRead.hostname = "s1"
    /\ Recorded(cache, "s1", "p1") /\ Recorded(cache, "s1", "p2")
    /\ IstioEndpoint("10.0.0.1", 80, "http", Healthy) \in Range(cache["s1"]["p1"])
    /\ Len(cache["s1"]["p2"]) = 2 /\ cache["s1"]["p2"][1] = cache["s1"]["p2"][2]
    /\ lastRead.out = <<IstioEndpoint("10.0.0.1", 80, "http", Draining)>>

\* C3: Delete(s, p) removes p's entry and leaves the other slices of s recorded;
\* a Get(s) that follows is the dedup merge of those slices only; Has(s) is
\* false when p was the last slice of s and true while another slice remains.
C3_Removal ==
    lastWrite.op = "Delete" =>
        /\ ~Recorded(cache, lastWrite.hostname, lastWrite.slice)
        /\ SlicesOf(cache, lastWrite.hostname) = lastWrite.others
        /\ HasCache(cache, lastWrite.hostname) <=> lastWrite.others # {}
        /\ HasAfterWrite => (lastRead.found <=> lastWrite.others # {})
        /\ GetAfterWrite =>
              /\ Keys(lastRead.out) = KeysOf(cache, lastWrite.hostname, lastWrite.others)
              /\ StoredIn(lastRead.out, cache, lastWrite.hostname, lastWrite.others)

\* the last slice of a service was deleted and Has answered false
C3_Witness ==
    /\ lastWrite.op = "Delete" /\ lastWrite.was /\ lastWrite.others = {}
    /\ lastWrite.dropped # {}
    /\ HasAfterWrite /\ ~lastRead.found

\* C4: Has(s) holds exactly when a slice is recorded for s; no service entry
\* has an empty slice map; and the slices recorded are exactly those updated
\* and not explicitly deleted since.
C4_HasIffRecorded ==
    /\ \A h \in Hostnames :
          /\ HasCache(cache, h) <=> (\E p \in SliceNames : Recorded(cache, h, p))
          /\ HasCache(cache, h) <=> (\E p \in SliceNames : <<h, p>> \in updated)
          /\ \A p \in SliceNames : Recorded(cache, h, p) <=> <<h, p>> \in updated
    /\ \A h \in DOMAIN cache : DOMAIN cache[h] # {}
    /\ lastRead.op = "Has" =>
          (lastRead.found <=> \E p \in SliceNames : <<lastRead.hostname, p>> \in updated)

\* one of two slices of a service was deleted, the other holds an empty list,
\* and Has still answers true
C4_Witness ==
    /\ lastWrite.op = "Delete" /\ lastWrite.was /\ lastWrite.others # {}
    /\ \A q \in lastWrite.others : Len(cache[lastWrite.hostname][q]) = 0
    /\ HasAfterWrite /\ lastRead.found

\* C5: Update(s, p, empty list) leaves p recorded with an empty list, creating
\* the entry when p or s was not recorded: Has(s) is true and Get(s) returns
\* only endpoints of the other slices.
C5_EmptyUpdateKeepsEntry ==
    (lastWrite.op = "Update" /\ Len(lastWrite.endpoints) = 0) =>
        /\ Recorded(cache, lastWrite.hostname, lastWrite.slice)
        /\ Len(cache[lastWrite.hostname][lastWrite.slice]) = 0
        /\ HasCache(cache, lastWrite.hostname)
        /\ HasAfterWrite => lastRead.found
        /\ GetAfterWrite =>
              StoredIn(lastRead.out, cache, lastWrite.hostname, SliceNames \ {lastWrite.slice})

\* an empty Update created the only entry of a service that was not recorded
C5_WitnessCreated ==
    /\ lastWrite.op = "Update" /\ Len(lastWrite.endpoints) = 0
    /\ ~lastWrite.was /\ lastWrite.others = {}
    /\ HasAfterWrite /\ lastRead.found

\* C6: a second Update(s, p, E) right after the first changes nothing: the
\* stored state, the results Get(s) can return and Has(s) are the same.
C6_Idempotence ==
    lastWrite.op = "Update" =>
        LET h == lastWrite.hostname
            again == UpdateCache(cache, h, lastWrite.slice, lastWrite.endpoints)
        IN  /\ again = cache
            /\ {Range(GetCache(again, h, o)) : o \in Orders(SlicesOf(again, h))}
                 = {Range(GetCache(cache, h, o)) : o \in Orders(SlicesOf(cache, h))}
            /\ HasCache(again, h) = HasCache(cache, h)

\* the same non-empty list was written twice to a slice, beside another slice
C6_Witness ==
    /\ lastWrite.op = "Update" /\ lastWrite.same
    /\ Len(lastWrite.endpoints) > 0 /\ lastWrite.others # {}
    /\ GetAfterWrite

\* a Get or Has step of SpecCache (a write resets lastRead)
ReadStep == lastRead'.op \in {"Get", "Has"}

\* an Update or Delete step of SpecCache
WriteStep == lastWrite'.op \in {"Update", "Delete"} /\ lastRead'.op = "none"

\* C12: Get(s) of a hostname without an entry returns nothing, as Get of a
\* hostname whose slices are all empty does; Get and Has leave the cache as it
\* is, so neither creates an entry and Has(s) stays false.
C12_ReadsOnly ==
    /\ [](lastRead.op = "Get" =>
            /\ ~HasCache(cache, lastRead.hostname) => lastRead.out = <<>>
            /\ KeysOf(cache, lastRead.hostname, SliceNames) = {} => lastRead.out = <<>>)
    /\ [](lastRead.op = "Has" =>
            (~lastRead.found <=> lastRead.hostname \notin DOMAIN cache))
    /\ [][ReadStep => cache' = cache]_vars

\* Get of a hostname that is not recorded returned nothing while another
\* hostname's only slices are empty, and the hostname is still not recorded
C12_Witness ==
    /\ lastRead.op = "Get" /\ lastRead.hostname = "s2" /\ lastRead.out = <<>>
    /\ ~HasCache(cache, "s2")
    /\ Recorded(cache, "s1", "p1") /\ Recorded(cache, "s1", "p2")
    /\ KeysOf(cache, "s1", SliceNames) = {}

\* C18: Update(s, p, E) and Delete(s, p) leave every other slice of s and
\* every other hostname as they were; Delete of a pair that is not recorded
\* leaves the whole cache as it was.
C18_Frame ==
    [][WriteStep =>
         /\ \A h \in Hostnames : \A q \in SliceNames :
               <<h, q>> # <<lastWrite'.hostname, lastWrite'.slice>> =>
                   /\ Recorded(cache', h, q) <=> Recorded(cache, h, q)
                   /\ Contribution(cache', h, q) = Contribution(cache, h, q)
         /\ \A h \in Hostnames \ {lastWrite'.hostname} :
               /\ HasCache(cache', h) <=> HasCache(cache, h)
               /\ MapGet(cache', h) = MapGet(cache, h)
         /\ (lastWrite'.op = "Delete" /\ ~lastWrite'.was) => cache' = cache
         /\ (lastWrite'.op = "Update" \/ lastWrite'.others # {}) =>
               HasCache(cache', lastWrite'.hostname)]_vars

\* a slice that is not recorded was deleted while the other slice of its
\* hostname and the other hostname hold endpoints, which are still there
C18_Witness ==
    /\ lastWrite.op = "Delete" /\ ~lastWrite.was /\ lastWrite.hostname = "s1"
    /\ \E q \in lastWrite.others : Len(cache["s1"][q]) > 0
    /\ Recorded(cache, "s2", "p1") /\ Len(cache["s2"]["p1"]) > 0

-----------------------------------------------------------------------------
(* Properties of the slice processing, checked under SpecSlice *)

\* the controller processed a slice of an IP address type
Built == proc.op = "build" /\ proc.slice.AddressType # "FQDN"

BuiltFqdn == proc.op = "build" /\ proc.slice.AddressType = "FQDN"

\* an address is left out: its pod is expected and missing
Unresolved(a) == getPod(a).pod = NilPtr /\ getPod(a).expectedPod

\* the entry is included with the status: all it emitted has the status, and
\* it emitted an endpoint for each of its resolved addresses and each port
Included(e, ports, emitted, status) ==
    /\ \A k \in 1..Len(emitted) :
          /\ emitted[k].HealthStatus = status
          /\ emitted[k].Address \in Range(e.Addresses)
    /\ \A a \in Range(e.Addresses) : \A j \in 1..Len(ports) :
          ~Unresolved(a) =>
              \E k \in 1..Len(emitted) :
                  /\ emitted[k].Address = a
                  /\ emitted[k].ServicePortName = PortName(ports[j])

\* C7: the list written for a slice is what its entries emitted, and an entry
\* is included as Healthy when ready, as Draining when not ready and draining,
\* as UnHealthy when neither and SendUnhealthyEndpoints is set, and emits
\* nothing when neither and SendUnhealthyEndpoints is not set.
C7_HealthClassification ==
    Built =>
        /\ Recorded(cache, proc.hostname, proc.slice.Name)
        /\ cache[proc.hostname][proc.slice.Name] = Flatten(proc.emitted)
        /\ \A i \in 1..Len(proc.slice.Endpoints) :
              LET e == proc.slice.Endpoints[i]
                  rd == proc.class[i].ready
                  dr == proc.class[i].draining
                  out == proc.emitted[i]
              IN  /\ rd => Included(e, proc.slice.Ports, out, Healthy)
                  /\ (~rd /\ dr) => Included(e, proc.slice.Ports, out, Draining)
                  /\ (~rd /\ ~dr /\ features.SendUnhealthyEndpoints) =>
                        Included(e, proc.slice.Ports, out, UnHealthy)
                  /\ (~rd /\ ~dr /\ ~features.SendUnhealthyEndpoints) => out = <<>>

\* a slice whose first entry was emitted as Healthy and whose second entry,
\* not ready and not draining, was left out
C7_Witness ==
    /\ Built /\ Len(proc.slice.Endpoints) = 2
    /\ proc.class[1].ready /\ Len(proc.emitted[1]) > 0
    /\ ~proc.class[2].ready /\ ~proc.class[2].draining
    /\ ~features.SendUnhealthyEndpoints
    /\ proc.emitted[2] = <<>>
    /\ Len(cache[proc.hostname][proc.slice.Name]) = Len(proc.emitted[1])

\* the value the service of hostname carries for a label, "" when there is no
\* service, no label map or no such label
ServiceLabel(hostname, label) ==
    IF services[hostname] = NilPtr THEN ""
    ELSE IF Deref(services[hostname]).Labels = NilPtr THEN ""
    ELSE MapLookup(Deref(Deref(services[hostname]).Labels), label)

\* C8: ready is: the Ready condition is true or absent. draining is: the
\* persistent-session label setting is non-empty, the service carries a
\* non-empty value for it, Serving is present and true, Ready is present and
\* false. They are never both true, and only such entries are emitted as
\* Healthy and as Draining.
C8_ReadyAndDraining ==
    Built =>
        \A i \in 1..Len(proc.slice.Endpoints) :
            LET cond == proc.slice.Endpoints[i].Conditions
                isReady == cond.Ready = NilPtr \/ cond.Ready = Ptr(TRUE)
                isDraining ==
                    /\ features.PersistentSessionLabel # ""
                    /\ ServiceLabel(proc.hostname, features.PersistentSessionLabel) # ""
                    /\ cond.Serving = Ptr(TRUE)
                    /\ cond.Ready = Ptr(FALSE)
            IN  /\ proc.class[i].ready <=> isReady
                /\ proc.class[i].draining <=> isDraining
                /\ ~(proc.class[i].ready /\ proc.class[i].draining)
                /\ \A k \in 1..Len(proc.emitted[i]) :
                      /\ proc.emitted[i][k].HealthStatus = Healthy <=> isReady
                      /\ proc.emitted[i][k].HealthStatus = Draining <=> isDraining
                /\ (cond.Serving = NilPtr \/ cond.Ready = NilPtr) =>
                      \A k \in 1..Len(proc.emitted[i]) :
                          proc.emitted[i][k].HealthStatus # Draining

\* an entry that is serving and not ready, of a service with the label, was
\* emitted as Draining
C8_Witness ==
    /\ Built /\ Len(proc.slice.Endpoints) = 1
    /\ proc.slice.Endpoints[1].Conditions = [Ready |-> Ptr(FALSE), Serving |-> Ptr(TRUE)]
    /\ proc.class[1].draining /\ ~proc.class[1].ready
    /\ Len(proc.emitted[1]) > 0
    /\ proc.emitted[1][1].HealthStatus = Draining

\* C9: after a slice of address type FQDN is processed, Get(service) returns
\* no endpoint contributed by that slice, whatever the cache held before.
C9_FqdnContributesNothing ==
    BuiltFqdn =>
        StoredIn(lastRead.out, cache, proc.hostname, SliceNames \ {proc.slice.Name})

\* C10: every processing of a slice ends with Update(service, slice name,
\* list): the slice is recorded with the list built from the payload (the
\* empty list for a slice that yields nothing), and when that list is empty
\* Get(service) returns only endpoints of the other slices.
C10_AlwaysUpdates ==
    proc.op = "build" =>
        /\ Recorded(cache, proc.hostname, proc.slice.Name)
        /\ cache[proc.hostname][proc.slice.Name] = Flatten(proc.emitted)
        /\ Len(Flatten(proc.emitted)) = 0 =>
              StoredIn(lastRead.out, cache, proc.hostname, SliceNames \ {proc.slice.Name})

\* what the cache holds for a slice that reported 10.0.0.1, port http
ScenarioEntry(status) == <<IstioEndpointOf("10.0.0.1", 80, "http", status, "pod-1")>>

\* the slice that reports 10.0.0.1 with the given conditions
ScenarioSlice(name, rd, sv) ==
    EndpointSlice(name, "IPv4", <<Endpoint(<<"10.0.0.1">>, rd, sv)>>, <<HttpPort>>)

\* the service carries the persistent-session label, slice pa reported
\* 10.0.0.1 as ready and slice pb reported it as not ready and serving; proc
\* holds the slice processed last, and the cache what the other one stored (a
\* single Draining endpoint is stored only for a not ready, serving entry)
Scenario(pa, pb) ==
    /\ features.PersistentSessionLabel # ""
    /\ ServiceLabel(SliceHost, features.PersistentSessionLabel) # ""
    /\ proc.op = "build" /\ proc.hostname = SliceHost
    /\ Recorded(cache, SliceHost, pa) /\ Recorded(cache, SliceHost, pb)
    /\ \/ /\ \E sv \in Tri : proc.slice = ScenarioSlice(pa, Ptr(TRUE), sv)
          /\ lastWrite.others = {pb}
          /\ cache[SliceHost][pb] = ScenarioEntry(Draining)
       \/ /\ proc.slice = ScenarioSlice(pb, Ptr(FALSE), Ptr(TRUE))
          /\ lastWrite.others = {pa}
          /\ cache[SliceHost][pa] = ScenarioEntry(Healthy)

\* C13: with the label on the service and the feature enabled, once slice A
\* has reported (10.0.0.1, http) ready and slice B the same address and port
\* not ready and serving, in either order, Get returns one endpoint for the
\* key, Healthy as A stored it or Draining as B stored it.
C13_EndToEnd ==
    \A pa, pb \in SliceNames :
        (pa # pb /\ Scenario(pa, pb)) =>
            /\ Len(lastRead.out) = 1
            /\ endpointKey(lastRead.out[1]) = [ip |-> "10.0.0.1", port |-> "http"]
            /\ lastRead.out[1].HealthStatus \in {Healthy, Draining}
            /\ \/ <<lastRead.out[1]>> = cache[SliceHost][pa]
               \/ <<lastRead.out[1]>> = cache[SliceHost][pb]
            /\ cache[SliceHost][pa] = ScenarioEntry(Healthy)
            /\ cache[SliceHost][pb] = ScenarioEntry(Draining)

\* slice p2 was processed last, as ready, after p1 was processed as serving,
\* and Get returned the Draining endpoint of p1
C13_Witness ==
    /\ Scenario("p2", "p1")
    /\ proc.slice.Name = "p2"
    /\ lastRead.out = ScenarioEntry(Draining)

\* the endpoints an entry adds: one for each address whose pod is found or not
\* expected, in order, times each port of the slice, in order
CrossProduct(e, ports, emitted, status) ==
    LET addrs == SelectSeq(e.Addresses, LAMBDA a : ~Unresolved(a))
    IN  /\ Len(emitted) = Len(addrs) * Len(ports)
        /\ \A k \in 1..Len(addrs) : \A j \in 1..Len(ports) :
              LET ep == emitted[(k - 1) * Len(ports) + j]
              IN  /\ ep.Address = addrs[k]
                  /\ ep.ServicePortName = PortName(ports[j])
                  /\ ep.EndpointPort = PortNum(ports[j])
                  /\ ep.HealthStatus = status
                  /\ ep.WorkloadName # "" <=> getPod(addrs[k]).pod # NilPtr

\* C14: the list written for a slice is, entry by entry, the cross product of
\* the entry's addresses and the slice's ports; addresses whose pod is
\* expected and missing are skipped, an address without a pod that was not
\* expected is emitted, and the endpoints of an entry share one status.
C14_CrossProduct ==
    Built =>
        /\ cache[proc.hostname][proc.slice.Name] = Flatten(proc.emitted)
        /\ \A i \in 1..Len(proc.slice.Endpoints) :
              LET e == proc.slice.Endpoints[i]
                  excluded == /\ ~proc.class[i].ready /\ ~proc.class[i].draining
                              /\ ~features.SendUnhealthyEndpoints
              IN  IF excluded
                  THEN proc.emitted[i] = <<>>
                  ELSE \E status \in {Healthy, UnHealthy, Draining} :
                          CrossProduct(e, proc.slice.Ports, proc.emitted[i], status)

\* a slice of two entries and two ports: the second entry has three addresses,
\* the one whose pod is expected and missing was skipped and the one without
\* an expected pod was emitted
C14_Witness ==
    /\ Built /\ Len(proc.slice.Endpoints) = 2 /\ Len(proc.slice.Ports) = 2
    /\ Len(proc.emitted[1]) = 2 /\ Len(proc.emitted[2]) = 4
    /\ Len(cache[proc.hostname][proc.slice.Name]) = 6
    /\ \A k \in 1..4 : proc.emitted[2][k].Address # "10.0.0.2"
    /\ proc.emitted[2][3].Address = "10.0.0.3" /\ proc.emitted[2][3].WorkloadName = ""

-----------------------------------------------------------------------------
(* endpointSliceCache under its lock: the methods line by line, called by     *)
(* goroutines that run the event handlers and by one that only reads         *)

LockHost == SliceHost

\* events of one slice are handled by one goroutine, one after the other
PartitionOf(t) == IF t = "w1" THEN "p1" ELSE "p2"

\* the lists a handler hands to Update: the empty one and the one-endpoint ones
LockLists(t) == {<<>>} \cup {<<ep>> : ep \in DirectEndpoints(<<LockHost, PartitionOf(t)>>)}

handlerVars == <<updated, features, services, lastWrite, lastRead, proc>>

\* c.mu.Lock() returns once nobody holds the lock
CanLock(m) == m.w = Null /\ m.r = {}

\* a read lock that does not wait for the writer
CanRLockAlways(m) == TRUE

\* c.mu.RLock() returns once no writer holds the lock
CanRLock(m) == m.w = Null

\* Update, lines 346-348, 349-351 and 352
UpdateStep346(c, hostname, slice, endpoints) ==
    IF Len(endpoints) = 0 /\ hostname \in DOMAIN c
    THEN [c EXCEPT ![hostname] = MapDelete(@, slice)]
    ELSE c

UpdateStep349(c, hostname) ==
    IF hostname \notin DOMAIN c THEN MapPut(c, hostname, EmptyMap) ELSE c

UpdateStep352(c, hostname, slice, endpoints) ==
    [c EXCEPT ![hostname] = MapPut(@, slice, endpoints)]

\* a Delete that leaves the slice in place
DeleteStep365Skip(c, hostname, slice) == c

\* Delete, line 365 and lines 366-368
DeleteStep365(c, hostname, slice) ==
    IF hostname \in DOMAIN c
    THEN [c EXCEPT ![hostname] = MapDelete(@, slice)]
    ELSE c

\* a cleanup that drops the service entry whatever it still holds
DeleteStep366Always(c, hostname) == MapDelete(c, hostname)

DeleteStep366(c, hostname) ==
    IF Cardinality(DOMAIN MapGet(c, hostname)) = 0
    THEN MapDelete(c, hostname)
    ELSE c

\* Get, lines 376-384: one turn of the loop over the slices; found holds the
\* keys of the endpoints appended so far
GetStep(out, endpoints) == Dedup(endpoints, Keys(out), out)

InitLock == InitCache

\* buildIstioEndpoints calls Update, which takes the lock (lines 343-344)
UpdateLock(t, endpoints) ==
    /\ t \in Writers
    /\ threads[t].pc = "idle"
    /\ CanLock(mu)
    /\ mu' = [mu EXCEPT !.w = t]
    /\ threads' = [threads EXCEPT ![t] =
                      [IdleThread EXCEPT !.pc = "Update346", !.call = "buildIstioEndpoints",
                                         !.slice = PartitionOf(t), !.endpoints = endpoints]]
    /\ UNCHANGED <<cache, committed, handlerVars, queryVars>>

UpdateDelete(t) ==
    /\ threads[t].pc = "Update346"
    /\ cache' = UpdateStep346(cache, LockHost, threads[t].slice, threads[t].endpoints)
    /\ threads' = [threads EXCEPT ![t].pc = "Update349"]
    /\ UNCHANGED <<mu, committed, handlerVars, queryVars>>

UpdateCreate(t) ==
    /\ threads[t].pc = "Update349"
    /\ cache' = UpdateStep349(cache, LockHost)
    /\ threads' = [threads EXCEPT ![t].pc = "Update352"]
    /\ UNCHANGED <<mu, committed, handlerVars, queryVars>>

\* line 352 and the deferred Unlock; buildIstioEndpoints goes on to Get
UpdatePut(t) ==
    /\ threads[t].pc = "Update352"
    /\ \E after \in {UpdateStep352(cache, LockHost, threads[t].slice, threads[t].endpoints)} :
          /\ cache' = after
          /\ committed' = after
          /\ threads' = [threads EXCEPT ![t].pc = "Get372", ![t].wrote = after]
    /\ mu' = [mu EXCEPT !.w = Null]
    /\ UNCHANGED <<handlerVars, queryVars>>

\* Has (lines 391-396), called by forgetEndpoint (line 167) or by the reader
HasRead(t) ==
    /\ threads[t].pc = "idle"
    /\ CanRLock(mu)
    /\ \E has \in {HasCache(cache, LockHost)} :
          threads' = [threads EXCEPT ![t] =
             IF t \in Writers
             THEN [IdleThread EXCEPT !.pc = IF has THEN "Delete362" ELSE "done",
                                     !.call = "forgetEndpoint", !.slice = PartitionOf(t),
                                     !.has = has, !.snap = committed]
             ELSE [IdleThread EXCEPT !.pc = "done", !.call = "Has",
                                     !.has = has, !.snap = committed]]
    /\ UNCHANGED <<cache, mu, committed, handlerVars, queryVars>>

\* forgetEndpoint calls Delete, which takes the lock (lines 361-363)
DeleteLock(t) ==
    /\ threads[t].pc = "Delete362"
    /\ CanLock(mu)
    /\ mu' = [mu EXCEPT !.w = t]
    /\ threads' = [threads EXCEPT ![t].pc = "Delete365"]
    /\ UNCHANGED <<cache, committed, handlerVars, queryVars>>

DeleteSlice(t) ==
    /\ threads[t].pc = "Delete365"
    /\ cache' = DeleteStep365(cache, LockHost, threads[t].slice)
    /\ threads' = [threads EXCEPT ![t].pc = "Delete366"]
    /\ UNCHANGED <<mu, committed, handlerVars, queryVars>>

\* lines 366-368 and the deferred Unlock; forgetEndpoint goes on to Get
DeleteCleanup(t) ==
    /\ threads[t].pc = "Delete366"
    /\ \E after \in {DeleteStep366(cache, LockHost)} :
          /\ cache' = after
          /\ committed' = after
          /\ threads' = [threads EXCEPT ![t].pc = "Get372", ![t].wrote = after]
    /\ mu' = [mu EXCEPT !.w = Null]
    /\ UNCHANGED <<handlerVars, queryVars>>

\* Get takes the read lock (lines 371-375), in a handler or in the reader
GetRLock(t) ==
    /\ \/ threads[t].pc = "Get372"
       \/ t \in Readers /\ threads[t].pc = "idle"
    /\ CanRLock(mu)
    /\ mu' = [mu EXCEPT !.r = @ \cup {t}]
    /\ threads' = [threads EXCEPT ![t].pc = "Get375",
                                  ![t].call = IF threads[t].pc = "idle" THEN "Get" ELSE @,
                                  ![t].visited = {}, ![t].out = <<>>,
                                  ![t].snap = committed]
    /\ UNCHANGED <<cache, committed, handlerVars, queryVars>>

\* one turn of the range loop of line 376, over a slice not visited yet
GetVisit(t) ==
    /\ threads[t].pc = "Get375"
    /\ \E slice \in (DOMAIN MapGet(cache, LockHost)) \ threads[t].visited :
          threads' = [threads EXCEPT ![t].visited = @ \cup {slice},
                                     ![t].out = GetStep(@, cache[LockHost][slice])]
    /\ UNCHANGED <<cache, mu, committed, handlerVars, queryVars>>

\* the loop is over: the deferred RUnlock and the return of line 388
GetReturn(t) ==
    /\ threads[t].pc = "Get375"
    /\ (DOMAIN MapGet(cache, LockHost)) \ threads[t].visited = {}
    /\ mu' = [mu EXCEPT !.r = @ \ {t}]
    /\ threads' = [threads EXCEPT ![t].pc = "done"]
    /\ UNCHANGED <<cache, committed, handlerVars, queryVars>>

\* the caller has its result and the goroutine takes its next event
Return(t) ==
    /\ threads[t].pc = "done"
    /\ threads' = [threads EXCEPT ![t] = IdleThread]
    /\ UNCHANGED <<cache, mu, committed, handlerVars, queryVars>>

NextLock ==
    \/ \E t \in Writers : \E endpoints \in LockLists(t) : UpdateLock(t, endpoints)
    \/ \E t \in Threads : UpdateDelete(t)
    \/ \E t \in Threads : UpdateCreate(t)
    \/ \E t \in Threads : UpdatePut(t)
    \/ \E t \in Threads : HasRead(t)
    \/ \E t \in Threads : DeleteLock(t)
    \/ \E t \in Threads : DeleteSlice(t)
    \/ \E t \in Threads : DeleteCleanup(t)
    \/ \E t \in Threads : GetRLock(t)
    \/ \E t \in Threads : GetVisit(t)
    \/ \E t \in Threads : GetReturn(t)
    \/ \E t \in Threads : Return(t)

SpecLock == InitLock /\ [][NextLock]_vars

-----------------------------------------------------------------------------
(* Properties of the cache under its lock, checked under SpecLock *)

InWrite(t) == threads[t].pc \in {"Update346", "Update349", "Update352", "Delete365", "Delete366"}

InRead(t) == threads[t].pc = "Get375"

\* t has the result of a Get: it returned from Get, alone or at the end of a handler
GotGet(t) ==
    /\ threads[t].pc = "done"
    /\ \/ threads[t].call \in {"Get", "buildIstioEndpoints"}
       \/ threads[t].call = "forgetEndpoint" /\ threads[t].has

\* t has the answer of a Has and has done nothing since
GotHas(t) ==
    \/ threads[t].pc = "Delete362"
    \/ threads[t].pc = "done" /\ threads[t].call = "Has"
    \/ threads[t].pc = "done" /\ threads[t].call = "forgetEndpoint" /\ ~threads[t].has

\* C11: writers exclude each other and the readers, readers may hold the lock
\* together; every Get returns what Get computes from the cache as completed
\* writes left it, every Has answers for such a cache, and such a cache never
\* has a service entry without slices (the two steps of Delete are seen as one)
C11_LockSafety ==
    /\ \A t, u \in Threads : InWrite(t) /\ InWrite(u) => t = u
    /\ \A t, u \in Threads : InWrite(t) => ~InRead(u)
    /\ \A t \in Threads : InWrite(t) <=> mu.w = t
    /\ \A t \in Threads : InRead(t) <=> t \in mu.r
    /\ \A t \in Threads : InRead(t) => cache = committed /\ threads[t].snap = committed
    /\ \A t \in Threads :
          GotGet(t) => \E order \in Orders(SlicesOf(threads[t].snap, LockHost)) :
                          threads[t].out = GetCache(threads[t].snap, LockHost, order)
    /\ \A t \in Threads : GotHas(t) => (threads[t].has <=> HasCache(threads[t].snap, LockHost))
    /\ \A hostname \in DOMAIN committed : DOMAIN committed[hostname] # {}

\* two goroutines are inside Get together, both slices are recorded with
\* endpoints, and the third goroutine waits to delete its slice
C11_Witness ==
    /\ InRead("r1") /\ InRead("w1")
    /\ threads["w2"].pc = "Delete362"
    /\ threads["r1"].visited # {} /\ threads["w1"].visited # {}
    /\ Recorded(cache, LockHost, "p1") /\ Len(Contribution(cache, LockHost, "p1")) > 0
    /\ Recorded(cache, LockHost, "p2") /\ Len(Contribution(cache, LockHost, "p2")) > 0

\* t returned from the handler named call
Returned(t, call) == threads[t].pc = "done" /\ threads[t].call = call

\* the number of endpoints of out that have the key
CountKey(out, key) == Cardinality({i \in 1..Len(out) : endpointKey(out[i]) = key})

\* C19: buildIstioEndpoints makes two calls, Update and then Get, each under
\* the lock by itself; with the events of a slice handled one after the other
\* and those of the other slices of the service concurrently, what it returns
\* has exactly one endpoint for every key of the list it wrote, and at most one
\* endpoint for any key
C19_BuildTwoSections ==
    \A t \in Writers :
       Returned(t, "buildIstioEndpoints") =>
          /\ \A key \in Keys(threads[t].endpoints) : CountKey(threads[t].out, key) = 1
          /\ \A key \in Keys(threads[t].out) : CountKey(threads[t].out, key) = 1
          /\ Contribution(threads[t].wrote, LockHost, threads[t].slice) = threads[t].endpoints
          /\ Contribution(threads[t].snap, LockHost, threads[t].slice) = threads[t].endpoints

\* w1 wrote an endpoint while p2 was recorded; p2 was deleted before w1's Get
\* took the lock, and the Get returned w1's own endpoint
C19_Witness ==
    /\ Returned("w1", "buildIstioEndpoints")
    /\ Len(threads["w1"].endpoints) = 1
    /\ Recorded(threads["w1"].wrote, LockHost, "p2")
    /\ ~Recorded(threads["w1"].snap, LockHost, "p2")
    /\ threads["w1"].out = threads["w1"].endpoints

\* a step of a goroutine whose forgetEndpoint found no service entry
ForgetAbsentStep(t) ==
    \/ threads[t].pc = "idle" /\ threads'[t].call = "forgetEndpoint" /\ ~threads'[t].has
    \/ threads[t].call = "forgetEndpoint" /\ ~threads[t].has /\ threads'[t] # threads[t]

\* C20: forgetEndpoint makes three calls, Has, Delete and Get, each under the
\* lock by itself. It reports the service only if Has found it; if Has did not
\* find it, it returns at once, reports nothing and leaves the cache as it is.
\* With the events of the removed slice handled one after the other and the
\* other slices updated and deleted concurrently, every endpoint it reports is
\* held by another slice, and the removed slice is not recorded when it returns
C20_ForgetThreeSections ==
    /\ [](\A t \in Writers :
            Returned(t, "forgetEndpoint") =>
               /\ ~threads[t].has => threads[t].out = <<>> /\ threads[t].visited = {}
               /\ threads[t].has =>
                     /\ \A i \in 1..Len(threads[t].out) :
                           \E q \in SlicesOf(threads[t].snap, LockHost) \ {threads[t].slice} :
                              threads[t].out[i] \in Range(threads[t].snap[LockHost][q])
                     /\ ~Recorded(threads[t].snap, LockHost, threads[t].slice)
                     /\ ~Recorded(cache, LockHost, threads[t].slice))
    /\ [][\A t \in Writers :
            ForgetAbsentStep(t) =>
               /\ cache' = cache
               /\ threads'[t].pc \in {"done", "idle"}
               /\ LockHost \notin DOMAIN cache => LockHost \notin DOMAIN cache']_vars

\* w1 removed p1 while p2 was not recorded; p2 was written before w1's Get took
\* the lock, and w1 reports the endpoint of p2, whose key p1 had held too
C20_Witness ==
    /\ Returned("w1", "forgetEndpoint")
    /\ threads["w1"].has
    /\ ~Recorded(threads["w1"].wrote, LockHost, "p2")
    /\ Recorded(threads["w1"].snap, LockHost, "p2")
    /\ Len(threads["w1"].out) = 1
    /\ endpointKey(threads["w1"].out[1]) \in
          {endpointKey(ep) : ep \in DirectEndpoints(<<LockHost, "p1">>)}

-----------------------------------------------------------------------------
(* endpointSliceController: the queries, which list the informer's slices *)

\* a slice as the informer holds it: with its namespace and the service named
\* by its kubernetes.io/service-name label
StoredSlice(slice, namespace, serviceName) ==
    [Name |-> slice.Name, Namespace |-> namespace, ServiceName |-> serviceName,
     AddressType |-> slice.AddressType, Endpoints |-> slice.Endpoints, Ports |-> slice.Ports]

ServicePort(name, port) == [Name |-> name, Port |-> port]

\* model.Service, the fields this file reads
Service(hostname, namespace, ports) ==
    [Hostname |-> hostname, Name |-> hostname, Namespace |-> namespace,
     Labels |-> NilPtr, Ports |-> ports]

\* model.Proxy: its addresses, its namespace, and the pod getPodByProxy finds
Proxy(addresses, namespace, pod) ==
    [IPAddresses |-> addresses, Namespace |-> namespace, Pod |-> pod]

NoPort == ServicePort("", 0)

\* svc.Ports.Get(name): the first declared port of that name
PortsGet(ports, name) ==
    LET at == {i \in 1..Len(ports) : ports[i].Name = name}
    IN  IF at = {} THEN [port |-> NoPort, exists |-> FALSE]
        ELSE [port |-> ports[CHOOSE i \in at : \A j \in at : i <= j], exists |-> TRUE]

\* svc.Ports.GetByPort(num): the first declared port of that number
PortsGetByPort(ports, num) ==
    LET at == {i \in 1..Len(ports) : ports[i].Port = num}
    IN  IF at = {} THEN [port |-> NoPort, exists |-> FALSE]
        ELSE [port |-> ports[CHOOSE i \in at : \A j \in at : i <= j], exists |-> TRUE]

\* c.servicesForNamespacedName: the services of that name in that namespace
servicesForNamespacedName(svcs, namespace, name) ==
    IF svcs[name] # NilPtr /\ Deref(svcs[name]).Namespace = namespace
    THEN <<Deref(svcs[name])>>
    ELSE <<>>

\* the names of the stored slices of a namespace; with a service name, of that
\* service only (endpointSliceSelectorForService)
ListedNames(st, namespace, serviceName) ==
    {name \in DOMAIN st :
        /\ st[name].Namespace = namespace
        /\ serviceName = Null \/ st[name].ServiceName = serviceName}

\* listSlices: an error, or the matching slices in some order
listSlices(st, namespace, serviceName) ==
    {[err |-> TRUE, slices |-> <<>>]} \cup
    {[err |-> FALSE, slices |-> [i \in 1..Len(order) |-> st[order[i]]]] :
        order \in Orders(ListedNames(st, namespace, serviceName))}

\* the endpoint the builder makes for a query; the query paths set no HealthStatus
InstanceEndpoint(address, portNum, portName, workload) ==
    [Address |-> address, EndpointPort |-> portNum,
     ServicePortName |-> portName, WorkloadName |-> workload]

ServiceInstance(endpoint, svcPort, svc) ==
    [Endpoint |-> endpoint, ServicePort |-> svcPort, Service |-> svc.Hostname]

\* the loops of lines 132-146, for one port of the slice and one service
PortServiceInstances(port, ep, proxy, svc) ==
    IF port.Name = NilPtr \/ port.Port = NilPtr
    THEN <<>>
    ELSE LET found == PortsGet(svc.Ports, Deref(port.Name))
         IN  IF ~found.exists
             THEN <<>>
             ELSE Flatten([m \in 1..Len(proxy.IPAddresses) |->
                    Flatten([i \in 1..Len(ep.Endpoints) |->
                      Flatten([j \in 1..Len(ep.Endpoints[i].Addresses) |->
                        IF ep.Endpoints[i].Addresses[j] = proxy.IPAddresses[m]
                        THEN <<ServiceInstance(
                                  InstanceEndpoint(proxy.IPAddresses[m], Deref(port.Port),
                                                   found.port.Name, proxy.Pod),
                                  found.port, svc)>>
                        ELSE <<>>])])])

\* sliceServiceInstances after its test of the address type
IpSliceServiceInstances(ep, proxy, svcs) ==
    LET found == servicesForNamespacedName(svcs, ep.Namespace, ep.ServiceName)
    IN  Flatten([s \in 1..Len(found) |->
           Flatten([k \in 1..Len(ep.Ports) |->
              PortServiceInstances(ep.Ports[k], ep, proxy, found[s])])])

\* sliceServiceInstances without the early return for FQDN slices
sliceServiceInstancesAnyType(ep, proxy, svcs) == IpSliceServiceInstances(ep, proxy, svcs)

sliceServiceInstances(ep, proxy, svcs) ==
    IF ep.AddressType = "FQDN" THEN <<>> ELSE IpSliceServiceInstances(ep, proxy, svcs)

\* GetProxyServiceInstances, given what listSlices returned
GetProxyServiceInstancesOf(listing, proxy, svcs) ==
    IF listing.err
    THEN <<>>
    ELSE Flatten([s \in 1..Len(listing.slices) |->
                     sliceServiceInstances(listing.slices[s], proxy, svcs)])

\* the port test of InstancesByPort without the unnamed case
PortMatchesNamedOnly(port, svcPort) ==
    port.Name # NilPtr /\ svcPort.Name = Deref(port.Name)

\* the port test of lines 308-309
PortMatches(port, svcPort) ==
    port.Name = NilPtr \/ svcPort.Name = Deref(port.Name)

\* InstancesByPort, lines 294-317: one address of an entry
AddressInstancesByPort(a, ports, svc, svcPort) ==
    LET found == getPod(a)
    IN  IF found.pod = NilPtr /\ found.expectedPod
        THEN <<>>
        ELSE Flatten([k \in 1..Len(ports) |->
                IF PortMatches(ports[k], svcPort)
                THEN <<ServiceInstance(
                          InstanceEndpoint(a, PortNum(ports[k]), svcPort.Name,
                                           IF found.pod = NilPtr THEN "" ELSE Deref(found.pod)),
                          svcPort, svc)>>
                ELSE <<>>])

\* InstancesByPort, lines 288-319: one slice
SliceInstancesByPort(slice, svc, svcPort) ==
    IF slice.AddressType = "FQDN"
    THEN <<>>
    ELSE Flatten([i \in 1..Len(slice.Endpoints) |->
            Flatten([j \in 1..Len(slice.Endpoints[i].Addresses) |->
               AddressInstancesByPort(slice.Endpoints[i].Addresses[j], slice.Ports,
                                      svc, svcPort)])])

\* InstancesByPort, given what listSlices returned
InstancesByPortOf(listing, svc, reqSvcPort) ==
    IF listing.err THEN <<>>
    ELSE IF Len(listing.slices) = 0 THEN <<>>
    ELSE LET found == PortsGetByPort(svc.Ports, reqSvcPort)
         IN  IF ~found.exists
             THEN <<>>
             ELSE Flatten([s \in 1..Len(listing.slices) |->
                             SliceInstancesByPort(listing.slices[s], svc, found.port)])

\* the early return of buildIstioEndpointsWithService without its test of the length
ListingUnusableErrOnly(listing) == listing.err

\* the test of line 245
ListingUnusable(listing) == listing.err \/ Len(listing.slices) = 0

\* the loop of lines 252-254
RECURSIVE UpdateAll(_, _, _, _, _)
UpdateAll(c, hostName, slices, svc, feats) ==
    IF Len(slices) = 0 THEN c
    ELSE UpdateAll(updateEndpointCacheForSlice(c, hostName, Head(slices), svc, feats),
                   hostName, Tail(slices), svc, feats)

-----------------------------------------------------------------------------
(* The store, services and proxies the queries are run with *)

QueryNamespace == "ns1"

Service1 ==
    Service("s1", QueryNamespace, <<ServicePort("http", 80), ServicePort("grpc", 90)>>)

Service2 == Service("s2", QueryNamespace, <<ServicePort("http", 8080)>>)

\* ports with a name and no number, with a name the services do not declare,
\* and with a number and no name
GrpcNoNumber == [Name |-> Ptr("grpc"), Port |-> NilPtr]

MetricsPort == [Name |-> Ptr("metrics"), Port |-> Ptr(9090)]

NumberOnly == [Name |-> NilPtr, Port |-> Ptr(81)]

\* what the informer may hold under a slice name: two slices of s1 that overlap
\* on 10.0.0.1 and http, an FQDN slice of s1, a slice of s2, and a slice of s1
\* in another namespace
StoreSlices(name) ==
    { StoredSlice(EndpointSlice(name, "IPv4",
                     <<Endpoint(<<"10.0.0.1">>, Ptr(TRUE), Ptr(TRUE)),
                       Endpoint(<<"10.0.0.1", "10.0.0.2", "10.0.0.3">>, Ptr(FALSE), Ptr(TRUE))>>,
                     <<HttpPort, UnnamedPort>>), QueryNamespace, "s1"),
      StoredSlice(EndpointSlice(name, "IPv4",
                     <<Endpoint(<<"10.0.0.1">>, Ptr(TRUE), Ptr(TRUE))>>,
                     <<HttpPort, GrpcNoNumber, MetricsPort, NumberOnly>>), QueryNamespace, "s1"),
      StoredSlice(EndpointSlice(name, "FQDN",
                     <<Endpoint(<<"10.0.0.1">>, Ptr(TRUE), Ptr(TRUE))>>,
                     <<HttpPort>>), QueryNamespace, "s1"),
      StoredSlice(EndpointSlice(name, "IPv4",
                     <<Endpoint(<<"10.0.0.1">>, Ptr(TRUE), Ptr(TRUE))>>,
                     <<HttpPort>>), QueryNamespace, "s2"),
      StoredSlice(EndpointSlice(name, "IPv4",
                     <<Endpoint(<<"10.0.0.1">>, Ptr(TRUE), Ptr(TRUE))>>,
                     <<HttpPort>>), "ns2", "s1") }

\* a proxy of one address, one of two addresses, and one no slice names
Proxies ==
    { Proxy(<<"10.0.0.1">>, QueryNamespace, "pod-1"),
      Proxy(<<"10.0.0.2", "10.0.0.1">>, QueryNamespace, "pod-1"),
      Proxy(<<"10.0.0.9">>, QueryNamespace, "") }

\* the port numbers InstancesByPort is asked for: two declared ones and another
RequestedPorts == {80, 90, 81}

InitQuery ==
    /\ cache = newEndpointSliceCache
    /\ updated = {}
    /\ features = DefaultFeatures
    /\ \E svc2 \in {NilPtr, Ptr(Service2)} :
          services = [h \in Hostnames |-> IF h = "s1" THEN Ptr(Service1) ELSE svc2]
    /\ lastWrite = NoWrite
    /\ lastRead = NoRead
    /\ proc = NoProc
    /\ store = EmptyMap
    /\ query = NoQuery
    /\ mu = Unlocked
    /\ threads = [t \in Threads |-> IdleThread]
    /\ committed = newEndpointSliceCache

\* the informer stores an added or updated slice
StoreSet(name, slice) ==
    /\ store' = MapPut(store, name, slice)
    /\ query' = NoQuery
    /\ UNCHANGED <<cache, handlerVars, lockVars>>

\* the informer drops a deleted slice
StoreRemove(name) ==
    /\ name \in DOMAIN store
    /\ store' = MapDelete(store, name)
    /\ query' = NoQuery
    /\ UNCHANGED <<cache, handlerVars, lockVars>>

GetProxyServiceInstances(proxy) ==
    /\ \E listing \in listSlices(store, proxy.Namespace, Null) :
          query' = [op |-> "GetProxyServiceInstances", args |-> <<proxy>>,
                    order |-> <<>>, err |-> listing.err,
                    out |-> GetProxyServiceInstancesOf(listing, proxy, services)]
    /\ UNCHANGED <<cache, store, handlerVars, lockVars>>

InstancesByPort(svc, reqSvcPort) ==
    /\ \E listing \in listSlices(store, svc.Namespace, svc.Name) :
          query' = [op |-> "InstancesByPort", args |-> <<svc, reqSvcPort>>,
                    order |-> <<>>, err |-> listing.err,
                    out |-> InstancesByPortOf(listing, svc, reqSvcPort)]
    /\ UNCHANGED <<cache, store, handlerVars, lockVars>>

buildIstioEndpointsWithService(name, namespace, hostName, updateCache) ==
    \E listing \in listSlices(store, namespace, name) :
    \E after \in {IF ~ListingUnusable(listing) /\ updateCache
                  THEN UpdateAll(cache, hostName, listing.slices, services[hostName], features)
                  ELSE cache} :
        /\ cache' = after
        /\ updated' = IF ~ListingUnusable(listing) /\ updateCache
                      THEN updated \cup {<<hostName, listing.slices[i].Name>> :
                                           i \in {j \in 1..Len(listing.slices) :
                                                    listing.slices[j].AddressType # "FQDN"}}
                      ELSE updated
        /\ IF ListingUnusable(listing)
           THEN query' = [op |-> "buildIstioEndpointsWithService",
                          args |-> <<name, namespace, hostName, updateCache>>,
                          order |-> <<>>, err |-> listing.err, out |-> <<>>]
           ELSE \E order \in Orders(DOMAIN MapGet(after, hostName)) :
                   query' = [op |-> "buildIstioEndpointsWithService",
                             args |-> <<name, namespace, hostName, updateCache>>,
                             order |-> order, err |-> FALSE,
                             out |-> GetCache(after, hostName, order)]
        /\ UNCHANGED <<features, services, lastWrite, lastRead, proc, store, lockVars>>

NextQuery ==
    \/ \E name \in SliceNames : \E slice \in StoreSlices(name) : StoreSet(name, slice)
    \/ \E name \in SliceNames : StoreRemove(name)
    \/ \E proxy \in Proxies : GetProxyServiceInstances(proxy)
    \/ \E reqSvcPort \in RequestedPorts : InstancesByPort(Service1, reqSvcPort)
    \/ \E updateCache \in BOOLEAN :
          buildIstioEndpointsWithService("s1", QueryNamespace, "s1", updateCache)

SpecQuery == InitQuery /\ [][NextQuery]_vars

-----------------------------------------------------------------------------
(* Properties of the queries, checked under SpecQuery *)

\* the instances of out for the service, the address and the endpoint port number
InstancesAt(out, hostname, a, num) ==
    {x \in 1..Len(out) : /\ out[x].Service = hostname
                         /\ out[x].Endpoint.Address = a
                         /\ out[x].Endpoint.EndpointPort = num}

\* the places <<slice name, entry, address, port>> of the listed slices that
\* InstancesByPort is to answer with: the slice is of an IP family, the pod of
\* the address is not expected and missing, the port has no name or the name
\* of the service port
ByPortOccurrences(st, names, svcPort) ==
    UNION {UNION {UNION {
        {<<name, i, j, k>> : k \in {n \in 1..Len(st[name].Ports) :
            /\ st[name].AddressType # "FQDN"
            /\ ~Unresolved(st[name].Endpoints[i].Addresses[j])
            /\ \/ st[name].Ports[n].Name = NilPtr
               \/ Deref(st[name].Ports[n].Name) = svcPort.Name}}
        : j \in 1..Len(st[name].Endpoints[i].Addresses)}
        : i \in 1..Len(st[name].Endpoints)}
        : name \in names}

OccurrenceAddress(st, x) == st[x[1]].Endpoints[x[2]].Addresses[x[3]]

OccurrencePortNum(st, x) == PortNum(st[x[1]].Ports[x[4]])

\* C15: InstancesByPort returns nothing when the service declares no port of
\* the number asked for; otherwise it returns one instance, with the declared
\* port, for every place (listed slice of an IP family, entry, address whose
\* pod is not expected and missing, port without a name or with the declared
\* port's name), duplicates across slices included, while every Get of the
\* cache returns at most one endpoint per key
C15_ByPort ==
    (query.op = "InstancesByPort" /\ ~query.err) =>
       LET svc == query.args[1]
           declared == {i \in 1..Len(svc.Ports) : svc.Ports[i].Port = query.args[2]}
           names == ListedNames(store, svc.Namespace, svc.Name)
       IN  /\ declared = {} => query.out = <<>>
           /\ declared # {} =>
                LET svcPort == svc.Ports[CHOOSE i \in declared : TRUE]
                    occ == ByPortOccurrences(store, names, svcPort)
                IN  /\ Len(query.out) = Cardinality(occ)
                    /\ \A x \in 1..Len(query.out) :
                          /\ query.out[x].ServicePort = svcPort
                          /\ query.out[x].Service = svc.Hostname
                          /\ query.out[x].Endpoint.ServicePortName = svcPort.Name
                          /\ Cardinality(InstancesAt(query.out, svc.Hostname,
                                                     query.out[x].Endpoint.Address,
                                                     query.out[x].Endpoint.EndpointPort))
                             = Cardinality({y \in occ :
                                  /\ OccurrenceAddress(store, y) = query.out[x].Endpoint.Address
                                  /\ OccurrencePortNum(store, y)
                                        = query.out[x].Endpoint.EndpointPort})
           /\ \A order \in Orders(SlicesOf(cache, svc.Hostname)) :
                 \A key \in KeysOf(cache, svc.Hostname, SliceNames) :
                    CountKey(GetCache(cache, svc.Hostname, order), key) = 1

\* two listed slices of one entry each hold 10.0.0.1 with the port http, the
\* cache records both, and the query for port 80 answers with two instances of
\* 10.0.0.1 and 80
C15_Witness ==
    /\ query.op = "InstancesByPort" /\ ~query.err /\ query.args[2] = 80
    /\ ListedNames(store, QueryNamespace, "s1") = {"p1", "p2"}
    /\ \A name \in {"p1", "p2"} :
          /\ store[name].AddressType = "IPv4"
          /\ Len(store[name].Endpoints) = 1
          /\ Recorded(cache, "s1", name)
          /\ [ip |-> "10.0.0.1", port |-> "http"] \in Keys(cache["s1"][name])
    /\ Cardinality(InstancesAt(query.out, "s1", "10.0.0.1", 80)) = 2

\* the places <<slice name, port, proxy address, entry, address>> of the listed
\* slices that GetProxyServiceInstances is to answer with
ByProxyOccurrences(st, names, proxy, svcs) ==
    UNION {UNION {UNION {UNION {
        {<<name, k, m, i, j>> : j \in {n \in 1..Len(st[name].Endpoints[i].Addresses) :
            /\ st[name].AddressType # "FQDN"
            /\ svcs[st[name].ServiceName] # NilPtr
            /\ Deref(svcs[st[name].ServiceName]).Namespace = st[name].Namespace
            /\ st[name].Ports[k].Name # NilPtr
            /\ st[name].Ports[k].Port # NilPtr
            /\ \E d \in 1..Len(Deref(svcs[st[name].ServiceName]).Ports) :
                  Deref(svcs[st[name].ServiceName]).Ports[d].Name = Deref(st[name].Ports[k].Name)
            /\ st[name].Endpoints[i].Addresses[n] = proxy.IPAddresses[m]}}
        : i \in 1..Len(st[name].Endpoints)}
        : m \in 1..Len(proxy.IPAddresses)}
        : k \in 1..Len(st[name].Ports)}
        : name \in names}

\* C16: GetProxyServiceInstances returns one instance for every place (listed
\* slice of an IP family, service of the slice, port of the slice with a name
\* and a number whose name the service declares, address of the proxy, entry
\* address equal to it), for all the addresses of the proxy and with no
\* duplicate removed; a port without name or number adds nothing
C16_ByProxy ==
    (query.op = "GetProxyServiceInstances" /\ ~query.err) =>
       LET proxy == query.args[1]
           occ == ByProxyOccurrences(store, ListedNames(store, proxy.Namespace, Null),
                                     proxy, services)
       IN  /\ Len(query.out) = Cardinality(occ)
           /\ \A x \in 1..Len(query.out) :
                LET inst == query.out[x]
                IN  /\ \E m \in 1..Len(proxy.IPAddresses) :
                          proxy.IPAddresses[m] = inst.Endpoint.Address
                    /\ services[inst.Service] # NilPtr
                    /\ \E d \in 1..Len(Deref(services[inst.Service]).Ports) :
                          Deref(services[inst.Service]).Ports[d] = inst.ServicePort
                    /\ inst.Endpoint.ServicePortName = inst.ServicePort.Name
                    /\ Cardinality(InstancesAt(query.out, inst.Service,
                                               inst.Endpoint.Address,
                                               inst.Endpoint.EndpointPort))
                       = Cardinality({y \in occ :
                            /\ store[y[1]].ServiceName = inst.Service
                            /\ proxy.IPAddresses[y[3]] = inst.Endpoint.Address
                            /\ Deref(store[y[1]].Ports[y[2]].Port)
                                  = inst.Endpoint.EndpointPort})

\* a proxy of two addresses, two listed slices of s1 that both hold 10.0.0.1
\* with the port http, one of them with ports lacking a name or a number: the
\* answer has instances for both addresses of the proxy, and more than one for
\* 10.0.0.1 and 80
C16_Witness ==
    /\ query.op = "GetProxyServiceInstances" /\ ~query.err
    /\ Len(query.args[1].IPAddresses) = 2
    /\ DOMAIN store = {"p1", "p2"}
    /\ \A name \in {"p1", "p2"} :
          store[name].ServiceName = "s1" /\ store[name].AddressType = "IPv4"
                                         /\ store[name].Namespace = QueryNamespace
    /\ Len(store["p1"].Ports) = 4
    /\ Len(store["p2"].Endpoints) = 2
    /\ Cardinality(InstancesAt(query.out, "s1", "10.0.0.1", 80)) = 3
    /\ Cardinality(InstancesAt(query.out, "s1", "10.0.0.2", 80)) = 1

\* the query found the listing failing, or, for the rebuild, empty
ListingFailed ==
    \/ query.op # "none" /\ query.err
    \/ /\ query.op = "buildIstioEndpointsWithService"
       /\ ListedNames(store, query.args[2], query.args[1]) = {}

\* C17: a query whose listing fails returns nothing and leaves the cache as it
\* is; so does the rebuild of a service whose listing is empty, whatever the
\* cache records for the service
C17_ListingFailure ==
    /\ [](ListingFailed => query.out = <<>>)
    /\ [][(query'.op # "none" /\ ListingFailed') => cache' = cache]_vars

\* the rebuild, asked to update the cache, listed no slice of the service
\* while the cache records endpoints for it, and returned nothing
C17_Witness ==
    /\ query.op = "buildIstioEndpointsWithService" /\ ~query.err
    /\ query.args[4]
    /\ ListedNames(store, query.args[2], query.args[1]) = {}
    /\ KeysOf(cache, query.args[3], SliceNames) # {}
    /\ query.out = <<>>

=============================================================================
